---- MODULE Spec2Model ----
(***************************************************************************)
(* Model of utils/pose_error.py: the 6D pose error functions               *)
(* (transform_pts_Rt_batch, transform_pts_Rt, reproj, add, adi, re, te)    *)
(* and the accuracy-curve summarizer compute_auc_posecnn.                  *)
(*                                                                         *)
(* The functions are pure.  Every specification below draws the arguments  *)
(* of the calls in its initial state and has one action per function       *)
(* called.                                                                 *)
(*                                                                         *)
(* Numbers.  Errors given to compute_auc_posecnn lie on a grid of          *)
(* GridSteps steps per cutoff (0.1); its score is an exact rational        *)
(* [num, den].  Geometry uses integer coordinates; the results of sqrt     *)
(* and of the perspective divide are fixed-point numbers with Scale units  *)
(* per 1.0, rounded down, with the IEEE specials inf and nan kept apart.   *)
(***************************************************************************)
EXTENDS Integers, Sequences, FiniteSets, TLC

VARIABLES
    pc,        \* position of the caller: the function it calls next, or "done"
    errors,    \* argument of the first compute_auc_posecnn call (array A)
    errorsB,   \* argument of the second compute_auc_posecnn call (array B)
    ap,        \* value returned for errors
    apB,       \* value returned for errorsB
    pts,       \* M x 3 model points
    K,         \* 3 x 3 camera intrinsics
    R_est,     \* N x r x c estimated rotations (a batch)
    t_est,     \* N x 3 estimated translations
    R_gt,      \* r x c ground-truth rotation
    t_gt,      \* ground-truth translation (3 elements)
    shape_est, \* array shape in which the estimated translation is given to te
    shape_gt,  \* array shape in which the ground-truth translation is given to te
    pts_t,     \* value returned by transform_pts_Rt_batch(pts, R_est, t_est)
    e_add,     \* value returned by add
    e_adi,     \* value returned by adi
    e_re,      \* value returned by re
    e_te,      \* value returned by te
    e_reproj   \* value returned by reproj

aucVars == <<errors, errorsB, ap, apB>>
poseArgs == <<pts, K, R_est, t_est, R_gt, t_gt, shape_est, shape_gt>>
poseRets == <<pts_t, e_add, e_adi, e_re, e_te, e_reproj>>

-----------------------------------------------------------------------------
(* Bounds of the model *)

\* Longest error array
MaxN == 3

\* Grid steps per cutoff: an error e stands for e * 0.1 / GridSteps
GridSteps == 2

\* Most model points
MaxPts == 2

\* Most estimated poses in a batch
MaxBatch == 2

\* Fixed-point units per 1.0
Scale == 10

\* Largest coordinate of a translation given to te
MaxT == 1


-----------------------------------------------------------------------------
(* Generic helpers *)

RECURSIVE SumSeq(_)
SumSeq(s) == IF s = <<>> THEN 0 ELSE s[1] + SumSeq(Tail(s))

Max(a, b) == IF a >= b THEN a ELSE b

\* All sequences over S of length lo..hi
SeqsOf(S, lo, hi) == UNION {[1..n -> S] : n \in lo..hi}

-----------------------------------------------------------------------------
(* compute_auc_posecnn *)

\* The cutoff 0.1, in grid steps
Cutoff == GridSteps

ErrValues == 0..(GridSteps + 1)

\* A value returned by compute_auc_posecnn: nan, or the rational num/den
NaN == [kind |-> "nan", num |-> 0, den |-> 1]
Num(n, d) == [kind |-> "num", num |-> n, den |-> d]
NoValue == [kind |-> "none", num |-> 0, den |-> 1]

\* An element of d: a finite grid value or +inf
Fin(v) == [inf |-> FALSE, v |-> v]
Inf == [inf |-> TRUE, v |-> 0]

\* np.sort: insertion into an ascending sequence
RECURSIVE Insert(_, _)
Insert(x, s) ==
    IF s = <<>> THEN <<x>>
    ELSE IF x <= s[1] THEN <<x>> \o s
    ELSE <<s[1]>> \o Insert(x, Tail(s))

\* The array left in the order given
Unsorted(s) == s

RECURSIVE Sort(_)
Sort(s) == IF s = <<>> THEN <<>> ELSE Insert(s[1], Sort(Tail(s)))

\* A clamp that also drops the errors equal to the cutoff
ClampAtCutoff(d) == [i \in 1..Len(d) |-> IF d[i] >= Cutoff THEN Inf ELSE Fin(d[i])]
\* d[d > 0.1] = np.inf
Clamp(d) == [i \in 1..Len(d) |-> IF d[i] > Cutoff THEN Inf ELSE Fin(d[i])]

\* np.cumsum(np.ones(n)) / n: the numerators i of i/n
Accuracy(n) == [i \in 1..n |-> i]

\* A mask that keeps every element
IsFiniteAll(d) == [i \in 1..Len(d) |-> TRUE]
\* ids = np.isfinite(d)
IsFinite(d) == [i \in 1..Len(d) |-> ~d[i].inf]

\* a[ids] for a boolean mask ids
RECURSIVE MaskFrom(_, _, _)
MaskFrom(a, ids, i) ==
    IF i > Len(a) THEN <<>>
    ELSE (IF ids[i] THEN <<a[i]>> ELSE <<>>) \o MaskFrom(a, ids, i + 1)

Mask(a, ids) == MaskFrom(a, ids, 1)

\* ids.sum()
CountTrue(ids) == Cardinality({i \in 1..Len(ids) : ids[i]})

\* for i in 1..len(mpre)-1: mpre[i] = max(mpre[i], mpre[i-1])
RECURSIVE RunningMaxFrom(_, _)
RunningMaxFrom(mpre, i) ==
    IF i > Len(mpre) THEN mpre
    ELSE RunningMaxFrom([mpre EXCEPT ![i] = Max(mpre[i], mpre[i - 1])], i + 1)

RunningMax(mpre) == RunningMaxFrom(mpre, 2)

\* The positions that end a run of equal values
ChangeIdsLastOfRun(mrec) ==
    {i \in 2..Len(mrec) : i = Len(mrec) \/ mrec[i + 1] # mrec[i]}
\* np.where(mrec[1:] != mrec[:-1])[0] + 1, as 1-based positions
ChangeIds(mrec) == {i \in 2..Len(mrec) : mrec[i] # mrec[i - 1]}

\* ((mrec[ids] - mrec[ids - 1]) * mpre[ids]).sum()
RECURSIVE StepSum(_, _, _)
StepSum(mrec, mpre, ids) ==
    IF ids = {} THEN 0
    ELSE LET i == CHOOSE j \in ids : TRUE
         IN (mrec[i] - mrec[i - 1]) * mpre[i] + StepSum(mrec, mpre, ids \ {i})

\* A scaling by 100 instead of 10
TimesHundred(sum, n) == Num(10 * sum, n * GridSteps)

\* ap = (...).sum() * 10.  With errors in grid steps and accuracies in units of
\* 1/n, the score is sum * (0.1 / GridSteps) * (1 / n) * 10 = sum / (n * GridSteps)
TimesTen(sum, n) == Num(sum, n * GridSteps)

compute_auc_posecnn(errs) ==
    LET d0 == Clamp(Sort(errs))
        n == Len(d0)
        ids == IsFinite(d0)
        d == Mask([i \in 1..n |-> d0[i].v], ids)
        accuracy == Mask(Accuracy(n), ids)
    IN IF Len(ids) = 0 \/ CountTrue(ids) = 0 THEN NaN
       ELSE LET mrec == <<0>> \o d \o <<Cutoff>>
                mpre == RunningMax(<<0>> \o accuracy \o <<accuracy[Len(accuracy)]>>)
            IN TimesTen(StepSum(mrec, mpre, ChangeIds(mrec)), n)

-----------------------------------------------------------------------------
(* Arrays.  A matrix is a sequence of rows; a batch is a sequence of matrices *)

Rows(A) == Len(A)
Cols(A) == Len(A[1])

\* A @ B for A of shape r x k and B of shape k x c
MatMul(A, B) ==
    [i \in 1..Rows(A) |-> [j \in 1..Cols(B) |->
        SumSeq([k \in 1..Cols(A) |-> A[i][k] * B[k][j]])]]

Abs(x) == IF x < 0 THEN -x ELSE x

\* The value of a call: status "ok" with the value returned, or the exception
Ok(v) == [status |-> "ok", val |-> v]
Raise(e) == [status |-> e, val |-> <<>>]
NotCalled == [status |-> "none", val |-> <<>>]

\* Floating-point results, as fixed-point numbers or the IEEE specials
F(v) == [k |-> "fin", v |-> v]
PInf == [k |-> "inf", v |-> 1]
NInf == [k |-> "inf", v |-> -1]
FNaN == [k |-> "nan", v |-> 0]

\* Largest r with r * r <= v
ISqrt(v) == CHOOSE r \in 0..(v + 1) : r * r <= v /\ v < (r + 1) * (r + 1)

\* np.sqrt of an integer, in fixed point
Sqrt(v) == ISqrt(v * Scale * Scale)

\* Index of a broadcast axis: an axis of length 1 is repeated
Bc(len, i) == IF len = 1 THEN 1 ELSE i

-----------------------------------------------------------------------------
(* transform_pts_Rt_batch and transform_pts_Rt *)

\* Entry [c][m] of A @ pts.T for pts of shape M x 3 and A of 3 columns
RowDotPoint(A, c, p) == A[c][1] * p[1] + A[c][2] * p[2] + A[c][3] * p[3]

\* The transformed points laid out pose, point, coordinate
TransformPointsMajor(pts_, R, t) ==
    Ok([n \in 1..Len(R) |-> [m \in 1..Len(pts_) |-> [c \in 1..3 |->
        RowDotPoint(R[n], c, pts_[m]) + t[n][c]]]])

\* R @ pts.T + t.reshape((-1, 3, 1)), for R of shape N x r x c, pts of shape
\* M x 3 and t of shape N' x 3.  The matrix product needs c = 3 and has shape
\* N x r x M; the sum broadcasts it against N' x 3 x 1.  A 2-D R (r x c) is
\* given here as the batch <<R>>: the sum broadcasts it to 1 x r x M.
transform_pts_Rt_batch(pts_, R, t) ==
    IF Cols(pts_) # 3 THEN Raise("AssertionError")
    ELSE IF Cols(R[1]) # 3 THEN Raise("ValueError")
    ELSE IF ~(Rows(R[1]) \in {1, 3}) THEN Raise("ValueError")
    ELSE IF ~(Len(R) = Len(t) \/ Len(R) = 1 \/ Len(t) = 1) THEN Raise("ValueError")
    ELSE LET N == Max(Len(R), Len(t))
         IN Ok([n \in 1..N |-> [c \in 1..3 |-> [m \in 1..Len(pts_) |->
                RowDotPoint(R[Bc(Len(R), n)], Bc(Rows(R[1]), c), pts_[m])
                    + t[Bc(Len(t), n)][c]]]])

\* (R @ pts.T + t.reshape((3, 1))).T for a 3 x 3 R: M x 3
transform_pts_Rt(pts_, R, t) ==
    [m \in 1..Len(pts_) |-> <<RowDotPoint(R, 1, pts_[m]) + t[1],
                              RowDotPoint(R, 2, pts_[m]) + t[2],
                              RowDotPoint(R, 3, pts_[m]) + t[3]>>]

-----------------------------------------------------------------------------
(* add *)

\* A mean that truncates: the sum divided by the count, in fixed point
Mean(s) == SumSeq(s) \div Len(s)

\* pts_est - pts_gt broadcast over the batch axis; **2; .sum(1) over the
\* coordinate axis; np.sqrt; .mean(1) over the points
PairedError(pts_est, pts_gt) ==
    LET N == Max(Len(pts_est), Len(pts_gt))
        M == Len(pts_est[1][1])
        diff(n, c, m) == pts_est[Bc(Len(pts_est), n)][c][m]
                          - pts_gt[Bc(Len(pts_gt), n)][c][m]
    IN [n \in 1..N |->
           Mean([m \in 1..M |->
               Sqrt(SumSeq([c \in 1..3 |-> diff(n, c, m) * diff(n, c, m)]))])]

add(R_est_, t_est_, R_gt_, t_gt_, pts_) ==
    IF Cols(R_est_[1]) # 3 THEN Raise("AssertionError")
    ELSE IF Rows(R_est_[1]) # 3 THEN Raise("AssertionError")
    ELSE LET pts_est == transform_pts_Rt_batch(pts_, R_est_, t_est_)
             pts_gt == transform_pts_Rt_batch(pts_, <<R_gt_>>, <<t_gt_>>)
         IN IF pts_est.status # "ok" THEN pts_est
            ELSE IF pts_gt.status # "ok" THEN pts_gt
            ELSE Ok(PairedError(pts_est.val, pts_gt.val))

-----------------------------------------------------------------------------
(* adi *)

SetMin(S) == CHOOSE x \in S : \A y \in S : x <= y

\* Squared distance of two points
SqDist(p, q) == SumSeq([c \in 1..3 |-> (p[c] - q[c]) * (p[c] - q[c])])

SetMax(S) == CHOOSE x \in S : \A y \in S : x >= y

\* A query that returns the distance to the farthest point of pts_est
QueryFarthest(pts_est, pts_gt) ==
    [m \in 1..Len(pts_gt) |->
        SetMax({Sqrt(SqDist(pts_gt[m], pts_est[j])) : j \in 1..Len(pts_est)})]

\* spatial.cKDTree(pts_est).query(pts_gt, k=1): for each point of pts_gt the
\* distance to its nearest point of pts_est
Query(pts_est, pts_gt) ==
    [m \in 1..Len(pts_gt) |->
        SetMin({Sqrt(SqDist(pts_gt[m], pts_est[j])) : j \in 1..Len(pts_est)})]

adi(R_est_, t_est_, R_gt_, t_gt_, pts_) ==
    LET pts_est == transform_pts_Rt(pts_, R_est_, t_est_)
        pts_gt == transform_pts_Rt(pts_, R_gt_, t_gt_)
    IN Mean(Query(pts_est, pts_gt))

-----------------------------------------------------------------------------
(* re *)

\* The two indices of 1..3 other than i, in ascending order
Others(i) == IF i = 1 THEN <<2, 3>> ELSE IF i = 2 THEN <<1, 3>> ELSE <<1, 2>>

Cofactor(A, i, j) ==
    LET r == Others(i)
        c == Others(j)
        minor == A[r[1]][c[1]] * A[r[2]][c[2]] - A[r[1]][c[2]] * A[r[2]][c[1]]
    IN IF (i + j) % 2 = 0 THEN minor ELSE -minor

Det(A) == SumSeq([j \in 1..3 |-> A[1][j] * Cofactor(A, 1, j)])

\* np.linalg.inv of a 3 x 3 matrix: the adjugate over the determinant.  The
\* quotient is exact for the matrices of determinant 1 or -1 used here.
Inv(A) == [i \in 1..3 |-> [j \in 1..3 |-> Cofactor(A, j, i) \div Det(A)]]

\* np.trace
Trace(A) == SumSeq([i \in 1..3 |-> A[i][i]])

\* np.clip
Clip(x, a_min, a_max) == IF x < a_min THEN a_min ELSE IF x > a_max THEN a_max ELSE x

\* np.degrees(np.arccos(c / 2)) for the integer c = 2 cos: exact at every
\* value twice the clipped cosine of an integer matrix can take
ArccosDegrees(c) ==
    CASE c = 2 -> 0
      [] c = 1 -> 60
      [] c = 0 -> 90
      [] c = -1 -> 120
      [] c = -2 -> 180

\* A rotation error computed against R_gt itself instead of its inverse
ReWithoutInverse(R_est_, R_gt_) ==
    IF ~(Rows(R_est_) = 3 /\ Cols(R_est_) = 3) THEN Raise("AssertionError")
    ELSE Ok(<<ArccosDegrees(Clip(Trace(MatMul(R_est_, R_gt_)) - 1, -2, 2))>>)

\* error_cos = (trace(R_est @ inv(R_gt)) - 1) * 0.5 is kept doubled.  The
\* reshape(-1, 3, 3) makes a single matrix a batch of one, so the value
\* returned is an array of one angle.
re(R_est_, R_gt_) ==
    IF ~(Rows(R_est_) = 3 /\ Cols(R_est_) = 3) THEN Raise("AssertionError")
    ELSE LET error_cos2 == Trace(MatMul(R_est_, Inv(R_gt_))) - 1
         IN Ok(<<ArccosDegrees(Clip(error_cos2, -2, 2))>>)

-----------------------------------------------------------------------------
(* te *)

\* An ndarray of at most two axes: its shape and its elements in row-major order
Array(shape, data) == [shape |-> shape, data |-> data]

Size(a) == IF Len(a.shape) = 1 THEN a.shape[1] ELSE a.shape[1] * a.shape[2]

\* The shape with a leading axis of length 1 added to a 1-D array
Shape2(a) == IF Len(a.shape) = 1 THEN <<1, a.shape[1]>> ELSE a.shape

\* Element [i][j] of a broadcast to a shape that has it
At(a, i, j) == a.data[(Bc(Shape2(a)[1], i) - 1) * Shape2(a)[2] + Bc(Shape2(a)[2], j)]

\* np.abs(a - b) under numpy broadcasting, as a matrix
AbsDiff(a, b) ==
    [i \in 1..Max(Shape2(a)[1], Shape2(b)[1]) |->
        [j \in 1..Max(Shape2(a)[2], Shape2(b)[2]) |-> Abs(At(a, i, j) - At(b, i, j))]]

\* .mean() runs over every element of the broadcast difference
te(t_est_, t_gt_) ==
    IF ~(Size(t_est_) = Size(t_gt_) /\ Size(t_gt_) = 3) THEN Raise("AssertionError")
    ELSE LET d == AbsDiff(t_gt_, t_est_)
         IN Ok(Num(SumSeq([i \in 1..Rows(d) |-> SumSeq(d[i])]), Rows(d) * Cols(d)))

-----------------------------------------------------------------------------
(* reproj *)

\* np.divide(x, z) in fixed point: x / 0 is +inf or -inf, 0 / 0 is nan
Divide(x, z) ==
    IF z = 0 THEN (IF x = 0 THEN FNaN ELSE IF x > 0 THEN PInf ELSE NInf)
    ELSE IF z < 0 THEN F(((-x) * Scale) \div (-z))
    ELSE F((x * Scale) \div z)

\* a - b in IEEE arithmetic
FSub(a, b) ==
    IF a.k = "nan" \/ b.k = "nan" THEN FNaN
    ELSE IF a.k = "inf" /\ b.k = "inf" THEN (IF a.v = b.v THEN FNaN ELSE a)
    ELSE IF a.k = "inf" THEN a
    ELSE IF b.k = "inf" THEN (IF b.v > 0 THEN NInf ELSE PInf)
    ELSE F(a.v - b.v)

\* np.linalg.norm of the 2-vector (dx, dy)
Norm2(dx, dy) ==
    IF dx.k = "nan" \/ dy.k = "nan" THEN FNaN
    ELSE IF dx.k = "inf" \/ dy.k = "inf" THEN PInf
    ELSE F(ISqrt(dx.v * dx.v + dy.v * dy.v))

\* .mean() of non-negative values
FMean(s) ==
    IF \E i \in 1..Len(s) : s[i].k = "nan" THEN FNaN
    ELSE IF \E i \in 1..Len(s) : s[i].k = "inf" THEN PInf
    ELSE F(SumSeq([i \in 1..Len(s) |-> s[i].v]) \div Len(s))

\* (K @ p.T).T, then the n x 2 array of pixel coordinates: columns 0 and 1
\* over column 2
Pixels(K_, p) ==
    [m \in 1..Len(p) |->
        <<Divide(RowDotPoint(K_, 1, p[m]), RowDotPoint(K_, 3, p[m])),
          Divide(RowDotPoint(K_, 2, p[m]), RowDotPoint(K_, 3, p[m]))>>]

reproj(K_, R_est_, t_est_, R_gt_, t_gt_, pts_) ==
    LET est == Pixels(K_, transform_pts_Rt(pts_, R_est_, t_est_))
        gt == Pixels(K_, transform_pts_Rt(pts_, R_gt_, t_gt_))
    IN FMean([m \in 1..Len(pts_) |->
           Norm2(FSub(est[m][1], gt[m][1]), FSub(est[m][2], gt[m][2]))])

-----------------------------------------------------------------------------
(* Arguments *)

ErrorArrays == SeqsOf(ErrValues, 0, MaxN)

\* The arrays given in ascending order
AscendingArrays == {e \in ErrorArrays : \A i \in 1..(Len(e) - 1) : e[i] <= e[i + 1]}

I3 == <<<<1, 0, 0>>, <<0, 1, 0>>, <<0, 0, 1>>>>
Rz90 == <<<<0, -1, 0>>, <<1, 0, 0>>, <<0, 0, 1>>>>

\* Rotation matrices with integer entries
Rotations == {I3, Rz90}

Translations == {<<0, 0, 0>>, <<1, 0, 1>>}

\* Model points; <<1, 0, 0>> has depth 0 under the identity pose
Points == {<<1, 0, 1>>, <<0, 1, 1>>, <<1, 0, 0>>}

PointSets == SeqsOf(Points, 1, MaxPts)

\* Focal length 2, principal point (1, 1)
Intrinsics == {<<<<2, 0, 1>>, <<0, 2, 1>>, <<0, 0, 1>>>>}

\* The array shapes that hold 3 elements
Shapes == {<<3>>, <<3, 1>>, <<1, 3>>}

\* Translations given to te
TeValues == [1..3 -> 0..MaxT]

\* Matrices of every shape r x c over Dims, ones on the diagonal
Dims == {1, 3, 4}
ShapedMats ==
    {[i \in 1..r |-> [j \in 1..c |-> IF i = j THEN 1 ELSE 0]] : r \in Dims, c \in Dims}

NoAucCall == errors = <<>> /\ errorsB = <<>> /\ ap = NoValue /\ apB = NoValue

NothingReturned ==
    /\ pts_t = NotCalled /\ e_add = NotCalled /\ e_adi = NotCalled
    /\ e_re = NotCalled /\ e_te = NotCalled /\ e_reproj = NotCalled

-----------------------------------------------------------------------------
(* The caller of the pose errors: one estimated batch against a ground     *)
(* truth, each function called once, in the order of the source file.  The *)
(* functions of a single pose are given the first pose of the batch.       *)

Init ==
    /\ pc = "transform"
    /\ pts \in PointSets
    /\ K \in Intrinsics
    /\ \E N \in 1..MaxBatch :
          /\ R_est \in [1..N -> Rotations]
          /\ t_est \in [1..N -> Translations]
    /\ R_gt \in Rotations
    /\ t_gt \in Translations
    /\ shape_est = <<3>>
    /\ shape_gt = <<3>>
    /\ NothingReturned
    /\ NoAucCall

CallTransformBatch ==
    /\ pc = "transform"
    /\ pts_t' = transform_pts_Rt_batch(pts, R_est, t_est)
    /\ pc' = "add"
    /\ UNCHANGED <<aucVars, poseArgs, e_add, e_adi, e_re, e_te, e_reproj>>

CallAdd ==
    /\ pc = "add"
    /\ e_add' = add(R_est, t_est, R_gt, t_gt, pts)
    /\ pc' = "adi"
    /\ UNCHANGED <<aucVars, poseArgs, pts_t, e_adi, e_re, e_te, e_reproj>>

CallAdi ==
    /\ pc = "adi"
    /\ e_adi' = Ok(adi(R_est[1], t_est[1], R_gt, t_gt, pts))
    /\ pc' = "re"
    /\ UNCHANGED <<aucVars, poseArgs, pts_t, e_add, e_re, e_te, e_reproj>>

CallRe ==
    /\ pc = "re"
    /\ e_re' = re(R_est[1], R_gt)
    /\ pc' = "te"
    /\ UNCHANGED <<aucVars, poseArgs, pts_t, e_add, e_adi, e_te, e_reproj>>

CallTe ==
    /\ pc = "te"
    /\ e_te' = te(Array(shape_est, t_est[1]), Array(shape_gt, t_gt))
    /\ pc' = "reproj"
    /\ UNCHANGED <<aucVars, poseArgs, pts_t, e_add, e_adi, e_re, e_reproj>>

CallReproj ==
    /\ pc = "reproj"
    /\ e_reproj' = Ok(reproj(K, R_est[1], t_est[1], R_gt, t_gt, pts))
    /\ pc' = "done"
    /\ UNCHANGED <<aucVars, poseArgs, pts_t, e_add, e_adi, e_re, e_te>>

vars == <<pc, aucVars, poseArgs, poseRets>>

Next ==
    \/ CallTransformBatch
    \/ CallAdd
    \/ CallAdi
    \/ CallRe
    \/ CallTe
    \/ CallReproj

Spec == Init /\ [][Next]_vars

-----------------------------------------------------------------------------
(* The caller of te alone: two translations of 3 elements, in any shapes *)

InitTe ==
    /\ pc = "te"
    /\ pts = <<<<0, 0, 1>>>>
    /\ K \in Intrinsics
    /\ R_est = <<I3>>
    /\ \E v \in TeValues : t_est = <<v>>
    /\ R_gt = I3
    /\ t_gt \in TeValues
    /\ shape_est \in Shapes
    /\ shape_gt \in Shapes
    /\ NothingReturned
    /\ NoAucCall

NextTe == CallTe

SpecTe == InitTe /\ [][NextTe]_vars

-----------------------------------------------------------------------------
(* The caller of add alone: rotation arrays of any shape *)

InitShape ==
    /\ pc = "add"
    /\ pts \in PointSets
    /\ K \in Intrinsics
    /\ \E A \in ShapedMats : R_est = <<A>>
    /\ \E v \in Translations : t_est = <<v>>
    /\ R_gt \in ShapedMats
    /\ t_gt \in Translations
    /\ shape_est = <<3>>
    /\ shape_gt = <<3>>
    /\ NothingReturned
    /\ NoAucCall

NextShape == CallAdd

SpecShape == InitShape /\ [][NextShape]_vars

-----------------------------------------------------------------------------
(* The caller of compute_auc_posecnn: scores array A, then array B of the   *)
(* same length.  A is given in every order; B, which the function sorts in *)
(* the same way, is given in ascending order.                              *)

InitAuc ==
    /\ pc = "aucA"
    /\ errors \in ErrorArrays
    /\ errorsB \in {b \in AscendingArrays : Len(b) = Len(errors)}
    /\ ap = NoValue
    /\ apB = NoValue
    /\ pts = <<<<0, 0, 1>>>>
    /\ K \in Intrinsics
    /\ R_est = <<I3>>
    /\ t_est = <<<<0, 0, 0>>>>
    /\ R_gt = I3
    /\ t_gt = <<0, 0, 0>>
    /\ shape_est = <<3>>
    /\ shape_gt = <<3>>
    /\ NothingReturned

CallAucA ==
    /\ pc = "aucA"
    /\ ap' = compute_auc_posecnn(errors)
    /\ pc' = "aucB"
    /\ UNCHANGED <<errors, errorsB, apB, poseArgs, poseRets>>

CallAucB ==
    /\ pc = "aucB"
    /\ apB' = compute_auc_posecnn(errorsB)
    /\ pc' = "done"
    /\ UNCHANGED <<errors, errorsB, ap, poseArgs, poseRets>>

NextAuc == CallAucA \/ CallAucB

SpecAuc == InitAuc /\ [][NextAuc]_vars

-----------------------------------------------------------------------------
(* Properties of compute_auc_posecnn, stated on the arguments alone *)

\* Exact comparison of two numeric scores
Leq(a, b) == a.num * b.den <= b.num * a.den

\* Number of errors of e that are <= x, and < x
CountLeq(e, x) == Cardinality({i \in 1..Len(e) : e[i] <= x})
CountLt(e, x) == Cardinality({i \in 1..Len(e) : e[i] < x})

AllAboveCutoff(e) == \A i \in 1..Len(e) : e[i] > Cutoff

scoredA == pc \in {"aucB", "done"}

\* C1 (as claimed): on a non-empty array whose errors all exceed the cutoff,
\* compute_auc_posecnn returns 0.0.
C1_ReturnsZero ==
    (scoredA /\ errors # <<>> /\ AllAboveCutoff(errors))
        => (ap.kind = "num" /\ ap.num = 0)

\* C1 (amended): on a non-empty array whose errors all exceed the cutoff,
\* compute_auc_posecnn returns NaN.
C1_ReturnsNaN ==
    (scoredA /\ errors # <<>> /\ AllAboveCutoff(errors)) => ap = NaN

C1_Witness ==
    scoredA /\ Len(errors) = MaxN /\ AllAboveCutoff(errors) /\ ap = NaN

\* C2: compute_auc_posecnn returns NaN exactly when the array is empty or no
\* error is <= the cutoff; in every other case it returns a numeric score.
C2_NaNIffNoFinite ==
    scoredA =>
        /\ ap.kind \in {"nan", "num"}
        /\ ap.kind = "nan" <=> (errors = <<>> \/ AllAboveCutoff(errors))

C2_Witness == scoredA /\ errors = <<>> /\ ap = NaN

\* A is no worse than B: sorted ascending, every element of A is <= the
\* element of B at the same position.  For arrays of equal length this is:
\* at every threshold x, A has at least as many errors <= x as B.
Dominates(a, b) ==
    /\ Len(a) = Len(b)
    /\ \A x \in ErrValues : CountLeq(a, x) >= CountLeq(b, x)

\* C3 (as claimed): if A is no worse than B then auc(A) >= auc(B).  A
\* comparison with NaN is false.
C3_Monotone ==
    (pc = "done" /\ Dominates(errors, errorsB))
        => (ap.kind = "num" /\ apB.kind = "num" /\ Leq(apB, ap))

\* C3 (amended): if A is no worse than B and B has an error <= the cutoff
\* (so that auc(B) is defined) then auc(A) is defined and auc(A) >= auc(B).
C3_MonotoneWhenDefined ==
    (pc = "done" /\ Dominates(errors, errorsB) /\ ~AllAboveCutoff(errorsB))
        => (ap.kind = "num" /\ apB.kind = "num" /\ Leq(apB, ap))

C3_Witness ==
    /\ pc = "done" /\ Dominates(errors, errorsB) /\ errors # errorsB
    /\ ap.kind = "num" /\ apB.kind = "num"
    /\ Leq(apB, ap) /\ ~Leq(ap, apB)

\* C9: a defined score lies in [0, 1].
C9_InUnitInterval ==
    (scoredA /\ ap.kind = "num") => (0 <= ap.num /\ ap.num <= ap.den /\ ap.den > 0)

C9_Witness ==
    /\ scoredA /\ ap.kind = "num"
    /\ 0 < ap.num /\ ap.num < ap.den
    /\ \E i \in 1..Len(errors) : errors[i] > Cutoff

\* The distinct error values of the curve: the finite errors, 0 and the cutoff
CurveValues(e) == {e[i] : i \in {j \in 1..Len(e) : e[j] <= Cutoff}} \cup {0, Cutoff}

PrevValue(e, v) == CHOOSE u \in CurveValues(e) :
    u < v /\ \A w \in CurveValues(e) : w < v => w <= u

\* Accuracy (in units of 1/n) of the last position holding v: the last error
\* equal to v, or the closing point (cutoff, last finite accuracy)
AccuracyAtLast(e, v) == CountLeq(e, v)

\* Accuracy (in units of 1/n) of the first position holding v: the first error
\* equal to v, or the closing point when no error equals the cutoff
AccuracyAtFirst(e, v) ==
    IF \E i \in 1..Len(e) : e[i] = v THEN CountLt(e, v) + 1 ELSE CountLt(e, v)

\* Sum over the values v of S of (v - previous value) * accuracy at v, the
\* accuracy taken at the first or at the last position holding v
RECURSIVE SumOver(_, _, _)
SumOver(S, e, first) ==
    IF S = {} THEN 0
    ELSE LET v == CHOOSE x \in S : TRUE
             acc == IF first THEN AccuracyAtFirst(e, v) ELSE AccuracyAtLast(e, v)
         IN (v - PrevValue(e, v)) * acc + SumOver(S \ {v}, e, first)

Integral(e, first) ==
    Num(SumOver(CurveValues(e) \ {0}, e, first), Len(e) * GridSteps)

\* C10 (as claimed): of a run of equal sorted errors only the last position
\* contributes: the interval ending at that value is weighted by the accuracy
\* of the last position of the run.
C10_LastOfRun ==
    (scoredA /\ ap.kind = "num") => ap = Integral(errors, FALSE)

\* C10 (amended): of a run of equal sorted errors only the first position
\* contributes: the interval ending at that value is weighted by the accuracy
\* of the first position of the run.
C10_FirstOfRun ==
    (scoredA /\ ap.kind = "num") => ap = Integral(errors, TRUE)

C10_Witness ==
    /\ scoredA /\ ap.kind = "num"
    /\ \E i, j \in 1..Len(errors) :
          i # j /\ errors[i] = errors[j] /\ 0 < errors[i] /\ errors[i] < Cutoff
    /\ ap = Integral(errors, TRUE)
    /\ ap # Integral(errors, FALSE)

-----------------------------------------------------------------------------
(* Properties of the pose errors *)

\* R p + t for one pose and one point
PosePoint(R, t, p) == [c \in 1..3 |-> SumSeq([k \in 1..3 |-> R[c][k] * p[k]]) + t[c]]

After(calls) == pc \in calls

\* C4: adi(est, gt, pts) <= add([est], gt, pts)[0]: the mean nearest-neighbour
\* distance never exceeds the mean paired distance.
C4_AdiAtMostAdd ==
    After({"re", "te", "reproj", "done"}) =>
        (e_add.status = "ok" /\ e_adi.status = "ok" /\ e_adi.val <= e_add.val[1])

C4_Witness ==
    /\ After({"re", "te", "reproj", "done"})
    /\ Len(pts) >= 2
    /\ 0 < e_adi.val /\ e_adi.val < e_add.val[1]

AtTruth == \A n \in 1..Len(R_est) : R_est[n] = R_gt /\ t_est[n] = t_gt

\* The projected depth of point m under the ground-truth pose: the third
\* homogeneous coordinate of K (R p + t)
Depth(m) ==
    LET q == PosePoint(R_gt, t_gt, pts[m])
    IN SumSeq([k \in 1..3 |-> K[3][k] * q[k]])

SomeDepthZero == \E m \in 1..Len(pts) : Depth(m) = 0

MetricsZero ==
    /\ e_add.status = "ok" /\ \A n \in 1..Len(R_est) : e_add.val[n] = 0
    /\ e_adi = Ok(0)
    /\ e_re = Ok(<<0>>)
    /\ e_te.status = "ok" /\ e_te.val.kind = "num" /\ e_te.val.num = 0

\* C6 (as claimed): when the estimated pose equals the ground-truth pose,
\* add, adi, re, te and reproj each return 0, for every point set.
C6_ZeroAtTruth ==
    (pc = "done" /\ AtTruth) => (MetricsZero /\ e_reproj = Ok(F(0)))

\* C6 (amended): when the estimated pose equals the ground-truth pose, add,
\* adi, re and te each return 0; reproj returns 0 if no transformed point has
\* projected depth 0, and NaN otherwise.
C6_ZeroAtTruthUnlessDepthZero ==
    (pc = "done" /\ AtTruth) =>
        /\ MetricsZero
        /\ e_reproj = IF SomeDepthZero THEN Ok(FNaN) ELSE Ok(F(0))

C6_Witness ==
    /\ pc = "done" /\ AtTruth
    /\ Len(R_est) = 2 /\ R_gt = Rz90 /\ t_gt # <<0, 0, 0>> /\ Len(pts) = 2
    /\ ~SomeDepthZero
    /\ MetricsZero /\ e_reproj = Ok(F(0))

-----------------------------------------------------------------------------
(* Properties of te and of add on arrays of other shapes *)

\* C7: for two translations of 3 elements each, whatever their shapes, te
\* returns one third of the sum of the three per-axis absolute differences.
C7_MeanOverThreeAxes ==
    pc = "reproj" =>
        /\ e_te.status = "ok" /\ e_te.val.kind = "num"
        /\ 3 * e_te.val.num =
              e_te.val.den * SumSeq([i \in 1..3 |-> Abs(t_gt[i] - t_est[1][i])])

IsThreeByThree(A) == Rows(A) = 3 /\ Cols(A) = 3

\* C8: add fails with an assertion failure, and returns no numeric result,
\* whenever the estimated or the ground-truth rotation array has trailing
\* dimensions other than 3 x 3.  The formula asks for the least the claim
\* says: that add fails, with whichever exception, and returns no result.
C8_FailsOnEveryRotation ==
    (pc = "adi" /\ (~IsThreeByThree(R_est[1]) \/ ~IsThreeByThree(R_gt)))
        => e_add.status # "ok"

====
